---- MODULE Spec2Model ----
(***************************************************************************)
(* Chord-graph state store and transition resolver of JASS-APP.            *)
(*                                                                         *)
(* The store is the chordGraphState of the Home page (the setState updater *)
(* in ws.onmessage), the snapshot is prevChordGraphStateRef, the resolver  *)
(* is the body of the ChordGraph component, which turns (state,            *)
(* previousState) into the per-node animation directives of allNodes.      *)
(***************************************************************************)
EXTENDS Integers, Sequences, FiniteSets, TLC

VARIABLES
    status,                  \* useState: "disconnected" | "connecting" | "connected"
    wsReadyState,            \* wsRef.current: "NONE" before the first connect, else its readyState
    chordGraphState,         \* useState<ChordGraphState | null>
    prevChordGraphStateRef,  \* useRef: the state seen by the last committed render
    demoModeRef,             \* useRef(false)
    pendingUpdates,          \* handler runs whose state updates are not rendered yet
    view,                    \* props and allNodes of the last ChordGraph render
    legacyChordGraphState,   \* chordGraphState of the legacy page (app/page.tsx)
    now,                     \* Date.now()
    mergePrev,               \* history: prev argument of the last updater run
    legacyMergePrev,         \* history: the same for the legacy page
    lastMsg,                 \* history: the message handled last
    lastHandler,             \* history: the handler that ran last
    eventLog,                \* history: the chord events merged so far, oldest
                             \* first, kept by the specifications of bounded runs
    livePianoNotes,          \* useState<string[] | null>
    liveNotesThrottleRef,    \* useRef: { timer, pending }
    liveBurst,               \* history: the live_notes samples received since
                             \* the throttle timer was last started
    colorQuery,              \* the chord ids of two nodes and the colours
                             \* ChordNode got for them
    demoIndex,               \* useState(0): the demo step shown last
    notesMap,                \* useState<Record<string, string[]>>({})
    keyboardHeldNotes,       \* useState<Set<number>>: MIDI notes of the held keys
    historySeed,             \* sessionStorage item "historySeed", Null if none
    keysDown,                \* the piano keys of the computer keyboard that
                             \* are physically down
    closedThrottle           \* history: liveNotesThrottleRef as the last
                             \* ws.onclose found it, until the next connect

vars == <<status, wsReadyState, chordGraphState, prevChordGraphStateRef,
          demoModeRef, pendingUpdates, view, legacyChordGraphState, now,
          mergePrev, legacyMergePrev, lastMsg, lastHandler, eventLog,
          livePianoNotes, liveNotesThrottleRef, liveBurst, colorQuery,
          demoIndex, notesMap, keyboardHeldNotes, historySeed, keysDown,
          closedThrottle>>

liveVars == <<livePianoNotes, liveNotesThrottleRef, liveBurst>>

homeVars == <<notesMap, keyboardHeldNotes>>

envVars == <<historySeed, keysDown>>

pageVars == <<status, wsReadyState, demoModeRef, pendingUpdates, view,
              prevChordGraphStateRef>>

legacyVars == <<legacyChordGraphState, legacyMergePrev>>

(***************************************************************************)
(* Values                                                                  *)
(***************************************************************************)

\* JavaScript null (an absent state, an absent previousState).
Null == [null |-> TRUE]

\* JavaScript undefined (an animation directive that is not given).
Undefined == [undefined |-> TRUE]

\* chord.name === null on the wire; "" is the other falsy name.
NullName == "<null>"

\* liveNotesThrottleRef with no timer running and nothing pending.
IdleThrottle == [timer |-> Null, pending |-> Null]

\* colorQuery before any node was drawn.
NoQuery == [chordIds |-> <<>>, colors |-> <<>>]

\* lastMsg before any message arrived.
NoMsg == [type |-> "none"]

\* mergePrev before any updater ran.
NotRun == [notRun |-> TRUE]

Falsy(s) == s = NullName \/ s = ""

Min(a, b) == IF a < b THEN a ELSE b

\* Array.prototype.slice(0, n)
Slice0(s, n) == SubSeq(s, 1, Min(n, Len(s)))

\* Array.prototype.findIndex with a chordId test: 0-based, -1 when absent.
RECURSIVE FindFrom(_, _, _)
FindFrom(s, c, k) ==
    IF k > Len(s) THEN -1
    ELSE IF s[k].chordId = c THEN k - 1
    ELSE FindFrom(s, c, k + 1)

FindIndex(s, c) == FindFrom(s, c, 1)

\* Array.prototype.some with a chordId test.
Some(s, c) == \E k \in 1..Len(s) : s[k].chordId = c

ChordIds(s) == [k \in 1..Len(s) |-> s[k].chordId]

\* All sequences over S of length 0..n.
SeqsUpTo(S, n) == UNION {[1..k -> S] : k \in 0..n}

(***************************************************************************)
(* Rationals: <<numerator, denominator>>, denominator > 0.                 *)
(***************************************************************************)
Rat(a, b) == <<a, b>>

RatMul(p, q) == <<p[1] * q[1], p[2] * q[2]>>

RatEq(p, q) == p[1] * q[2] = q[1] * p[2]

RatLeq(p, q) == p[1] * q[2] <= q[1] * p[2]

(***************************************************************************)
(* transformToChordGraphState (part_005:94-121)                            *)
(***************************************************************************)

\* suggestions.slice(0, 3)
NEXT_KEEP == 3

RECURSIVE MaxOf(_, _)
MaxOf(s, floor) ==
    IF s = <<>> THEN floor
    ELSE LET m == MaxOf(Tail(s), floor)
         IN IF Head(s).tension > m THEN Head(s).tension ELSE m

\* Mutant: the maximum is taken over the three kept suggestions only.
MaxTension_KeptOnly(suggestions) == MaxOf(Slice0(suggestions, NEXT_KEEP), 1)

\* Math.max(...suggestions.map(s => s.tension), 0.01); tensions are counted
\* in hundredths, so that the floor 0.01 is the integer 1.
MaxTension(suggestions) == MaxOf(suggestions, 1)

CurrentId(t) == "current-" \o ToString(t)

NextId(i, t) == "next-" \o ToString(i) \o "-" \o ToString(t)

PrevId(t) == "prev-" \o ToString(t)

TransformToChordGraphState(chordMsg, t) ==
    IF Falsy(chordMsg.chord.name) THEN Null
    ELSE LET maxTension == MaxTension(chordMsg.suggestions)
             kept == Slice0(chordMsg.suggestions, NEXT_KEEP)
         IN [current  |-> [id |-> CurrentId(t), chordId |-> chordMsg.chord.name],
             previous |-> <<>>,
             next     |-> [i \in 1..Len(kept) |->
                             [id          |-> NextId(i - 1, t),
                              chordId     |-> kept[i].name,
                              probability |-> Rat(maxTension - kept[i].tension,
                                                  maxTension)]]]

(***************************************************************************)
(* The setChordGraphState updater of ws.onmessage                          *)
(***************************************************************************)

\* .slice(0, 5) of the Home page
HISTORY_KEEP == 5

\* .slice(0, 3) of the legacy page
LEGACY_HISTORY_KEEP == 3

\* chordChanged: both ids truthy and different.
ChordChanged(prev, baseState) ==
    /\ ~Falsy(baseState.current.chordId)
    /\ ~Falsy(prev.current.chordId)
    /\ baseState.current.chordId # prev.current.chordId

\* Mutant: the outgoing current is appended behind the history.
NewPrevious_Append(prev, baseState, t, keep) ==
    IF ChordChanged(prev, baseState)
    THEN Slice0(prev.previous \o <<[id |-> PrevId(t), chordId |-> prev.current.chordId]>>,
                keep)
    ELSE prev.previous

\* Mutant: the history is never cut.
NewPrevious_NoSlice(prev, baseState, t, keep) ==
    IF ChordChanged(prev, baseState)
    THEN <<[id |-> PrevId(t), chordId |-> prev.current.chordId]>> \o prev.previous
    ELSE prev.previous

\* Mutant: a re-triggered chord is pushed into the history as well.
NewPrevious_PushAlways(prev, baseState, t, keep) ==
    Slice0(<<[id |-> PrevId(t), chordId |-> prev.current.chordId]>> \o prev.previous,
           keep)

\* Mutant: the incoming chord is pushed, not the outgoing one.
NewPrevious_PushIncoming(prev, baseState, t, keep) ==
    IF ChordChanged(prev, baseState)
    THEN Slice0(<<[id |-> PrevId(t), chordId |-> baseState.current.chordId]>>
                    \o prev.previous,
                keep)
    ELSE prev.previous

NewPrevious(prev, baseState, t, keep) ==
    IF ChordChanged(prev, baseState)
    THEN Slice0(<<[id |-> PrevId(t), chordId |-> prev.current.chordId]>> \o prev.previous,
                keep)
    ELSE prev.previous

\* Mutant: a re-triggered chord leaves the whole state as it was.
ChordGraphUpdater_IgnoreRepeat(prev, baseState, t) ==
    IF prev = Null THEN baseState
    ELSE IF ~ChordChanged(prev, baseState) THEN prev
    ELSE [baseState EXCEPT !.previous = NewPrevious(prev, baseState, t, HISTORY_KEEP)]

\* (prev) => ... of part_005:218-231
ChordGraphUpdater(prev, baseState, t) ==
    IF prev = Null THEN baseState
    ELSE [baseState EXCEPT !.previous = NewPrevious(prev, baseState, t, HISTORY_KEEP)]

\* (prev) => ... of app/page.tsx:156-169
LegacyChordGraphUpdater(prev, baseState, t) ==
    IF prev = Null THEN baseState
    ELSE [baseState EXCEPT
             !.previous = NewPrevious(prev, baseState, t, LEGACY_HISTORY_KEEP)]


(***************************************************************************)
(* Slot geometry (ChordGraph.tsx:520-548)                                  *)
(***************************************************************************)
VIEWBOX_W == 1200

CENTER_Y == 280

CENTER == [x |-> VIEWBOX_W \div 2, y |-> CENTER_Y]

MAX_HISTORY == 5

SLOT_POSITIONS ==
    "center" :> [x |-> 0,    y |-> 0]    @@
    "prev-0" :> [x |-> -280, y |-> -180] @@
    "prev-1" :> [x |-> -140, y |-> -220] @@
    "prev-2" :> [x |-> 0,    y |-> -240] @@
    "prev-3" :> [x |-> 140,  y |-> -220] @@
    "prev-4" :> [x |-> 280,  y |-> -180] @@
    "next-0" :> [x |-> -360, y |-> 360]  @@
    "next-1" :> [x |-> 0,    y |-> 360]  @@
    "next-2" :> [x |-> 360,  y |-> 360]

PrevSlot(i) == "prev-" \o ToString(i)

NextSlot(i) == "next-" \o ToString(i)

\* SLOT_POSITIONS[key] ?? { x: 0, y: 0 }, moved by CENTER
GetAbsPos(slot) ==
    LET offset == IF slot \in DOMAIN SLOT_POSITIONS
                  THEN SLOT_POSITIONS[slot]
                  ELSE [x |-> 0, y |-> 0]
    IN [x |-> CENTER.x + offset.x, y |-> CENTER.y + offset.y]

centerPos == GetAbsPos("center")

(***************************************************************************)
(* The resolver: ChordGraph (ChordGraph.tsx:663-706)                       *)
(***************************************************************************)

\* Mutant: the last matching suggestion is taken, not the first.
RECURSIVE FindLastFrom(_, _, _)
FindLastFrom(s, c, k) ==
    IF k < 1 THEN -1
    ELSE IF s[k].chordId = c THEN k - 1
    ELSE FindLastFrom(s, c, k - 1)

PromotedFrom_Last(state, previousState) ==
    IF /\ previousState # Null
       /\ state.current.chordId # previousState.current.chordId
       /\ Some(previousState.next, state.current.chordId)
    THEN FindLastFrom(previousState.next, state.current.chordId,
                      Len(previousState.next))
    ELSE -1

\* Mutant: a re-triggered chord that is listed as its own suggestion slides up.
PromotedFrom_NoChangeTest(state, previousState) ==
    IF /\ previousState # Null
       /\ Some(previousState.next, state.current.chordId)
    THEN FindIndex(previousState.next, state.current.chordId)
    ELSE -1

PromotedFrom(state, previousState) ==
    IF /\ previousState # Null
       /\ state.current.chordId # previousState.current.chordId
       /\ Some(previousState.next, state.current.chordId)
    THEN FindIndex(previousState.next, state.current.chordId)
    ELSE -1

PromotedInitialPosition(state, previousState) ==
    LET promotedFrom == PromotedFrom(state, previousState)
    IN IF promotedFrom >= 0 THEN GetAbsPos(NextSlot(promotedFrom)) ELSE Undefined

DemotedFromCenter(state, previousState) ==
    /\ previousState # Null
    /\ Len(state.previous) > 0
    /\ state.previous[1].chordId = previousState.current.chordId

\* The ratio written in getPrevAnimateFrom: 55 / 32
DEMOTE_SCALE_NUM == 55

DEMOTE_SCALE_DEN == 32

\* Mutant: the ratio the other way round, 32 / 55.
GetPrevAnimateFrom_Inverse(i, chordId, state, previousState) ==
    IF i = 0 /\ DemotedFromCenter(state, previousState)
    THEN [pos |-> centerPos, scale |-> Rat(DEMOTE_SCALE_DEN, DEMOTE_SCALE_NUM)]
    ELSE LET wasAtIndex == IF previousState = Null THEN -1
                           ELSE FindIndex(previousState.previous, chordId)
         IN IF wasAtIndex >= 0 /\ wasAtIndex # i
            THEN [pos |-> GetAbsPos(PrevSlot(wasAtIndex)), scale |-> Undefined]
            ELSE [pos |-> Undefined, scale |-> Undefined]

\* Mutant: a shifted node is sent from its new slot, not from its old one.
GetPrevAnimateFrom_OwnSlot(i, chordId, state, previousState) ==
    IF i = 0 /\ DemotedFromCenter(state, previousState)
    THEN [pos |-> centerPos, scale |-> Rat(DEMOTE_SCALE_NUM, DEMOTE_SCALE_DEN)]
    ELSE LET wasAtIndex == IF previousState = Null THEN -1
                           ELSE FindIndex(previousState.previous, chordId)
         IN IF wasAtIndex >= 0 /\ wasAtIndex # i
            THEN [pos |-> GetAbsPos(PrevSlot(i)), scale |-> Undefined]
            ELSE [pos |-> Undefined, scale |-> Undefined]

\* Mutant: without a snapshot the state's own history is searched.
GetPrevAnimateFrom_NullAsSelf(i, chordId, state, previousState) ==
    IF i = 0 /\ DemotedFromCenter(state, previousState)
    THEN [pos |-> centerPos, scale |-> Rat(DEMOTE_SCALE_NUM, DEMOTE_SCALE_DEN)]
    ELSE LET wasAtIndex == IF previousState = Null
                           THEN FindIndex(state.previous, chordId)
                           ELSE FindIndex(previousState.previous, chordId)
         IN IF wasAtIndex >= 0 /\ wasAtIndex # i
            THEN [pos |-> GetAbsPos(PrevSlot(wasAtIndex)), scale |-> Undefined]
            ELSE [pos |-> Undefined, scale |-> Undefined]

\* i is the 0-based index of the history node.
GetPrevAnimateFrom(i, chordId, state, previousState) ==
    IF i = 0 /\ DemotedFromCenter(state, previousState)
    THEN [pos |-> centerPos, scale |-> Rat(DEMOTE_SCALE_NUM, DEMOTE_SCALE_DEN)]
    ELSE LET wasAtIndex == IF previousState = Null THEN -1
                           ELSE FindIndex(previousState.previous, chordId)
         IN IF wasAtIndex >= 0 /\ wasAtIndex # i
            THEN [pos |-> GetAbsPos(PrevSlot(wasAtIndex)), scale |-> Undefined]
            ELSE [pos |-> Undefined, scale |-> Undefined]

PreviousEntries(state, previousState) ==
    LET shown == Slice0(state.previous, MAX_HISTORY)
    IN [k \in 1..Len(shown) |->
           LET from == GetPrevAnimateFrom(k - 1, shown[k].chordId, state, previousState)
           IN [node |-> shown[k], slot |-> PrevSlot(k - 1), role |-> "previous",
               animateFromPosition |-> from.pos, animateFromScale |-> from.scale]]

CurrentEntry(state, previousState) ==
    [node |-> state.current, slot |-> "center", role |-> "current",
     animateFromPosition |-> PromotedInitialPosition(state, previousState),
     animateFromScale |-> Undefined]

\* Mutant: a suggestion that was already listed at another slot slides over.
NextEntries_Slide(state, previousState) ==
    [k \in 1..Len(state.next) |->
        LET was == IF previousState = Null THEN -1
                   ELSE FindIndex(previousState.next, state.next[k].chordId)
        IN [node |-> state.next[k], slot |-> NextSlot(k - 1), role |-> "next",
            animateFromPosition |-> IF was >= 0 /\ was # k - 1
                                    THEN GetAbsPos(NextSlot(was)) ELSE Undefined,
            animateFromScale |-> Undefined]]

NextEntries(state, previousState) ==
    [k \in 1..Len(state.next) |->
        [node |-> state.next[k], slot |-> NextSlot(k - 1), role |-> "next",
         animateFromPosition |-> Undefined, animateFromScale |-> Undefined]]

\* allNodes; the empty canvas of a null state has no nodes.
AllNodes(state, previousState) ==
    IF state = Null THEN <<>>
    ELSE PreviousEntries(state, previousState)
         \o <<CurrentEntry(state, previousState)>>
         \o NextEntries(state, previousState)

(***************************************************************************)
(* ChordNodeComponentInner: the initial pose of a node (part_003:162-214)  *)
(***************************************************************************)

\* ROLE_CONFIG[role].radius
RoleRadius(role) ==
    CASE role = "current"  -> 55
      [] role = "next"     -> 40
      [] role = "previous" -> 32

\* depthScale = 1: ChordGraph passes none
DEPTH_SCALE == 1

\* the initial prop of motion.g for one entry of allNodes
ChordNodeInitial(entry) ==
    LET pos         == GetAbsPos(entry.slot)
        fromPos     == entry.animateFromPosition
        hasFrom     == fromPos # Undefined
        hasScale    == entry.animateFromScale # Undefined /\ entry.animateFromScale[1] # 0
        opacity     == IF entry.role = "previous" THEN Rat(92, 100) ELSE Rat(1, 1)
        targetScale == Rat(DEPTH_SCALE, 1)
        isSlidingUp == hasFrom /\ entry.role = "current"
        isDemoting  == hasScale /\ hasFrom
        isShifting  == hasFrom /\ ~hasScale /\ entry.role = "previous"
    IN IF isSlidingUp
       THEN [x |-> fromPos.x, y |-> fromPos.y, opacity |-> Rat(1, 1), scale |-> targetScale,
             motion |-> "slideUp"]
       ELSE IF isDemoting
       THEN [x |-> fromPos.x, y |-> fromPos.y, opacity |-> Rat(1, 1),
             scale |-> RatMul(entry.animateFromScale, targetScale), motion |-> "demote"]
       ELSE IF isShifting
       THEN [x |-> fromPos.x, y |-> fromPos.y, opacity |-> opacity, scale |-> targetScale,
             motion |-> "shift"]
       ELSE [x |-> pos.x, y |-> pos.y, opacity |-> opacity, scale |-> targetScale,
             motion |-> "none"]


(***************************************************************************)
(* Messages                                                                *)
(***************************************************************************)

\* Longest suggestion list of a chord message.
MaxSuggestions == 4

\* Handler runs that may pile up before React renders.
MaxPending == 2

\* The notes the backend reports for a chord name: the triad of a recognised
\* chord, none when no chord is held (the release message).
NotesOfChord(n) ==
    CASE n = "C"  -> <<"C", "E", "G">>
      [] n = "F"  -> <<"F", "A", "C">>
      [] n = "G"  -> <<"G", "B", "D">>
      [] n = "Am" -> <<"A", "C", "E">>
      [] n = "Em" -> <<"E", "G", "B">>
      [] n = "D"  -> <<"D", "F#", "A">>
      [] n = "Dm" -> <<"D", "F", "A">>
      [] OTHER    -> <<>>

Suggestion(n, t) == [name |-> n, tension |-> t, notes |-> NotesOfChord(n)]

ChordMsg(n, sugg) ==
    [type        |-> "chord",
     chord       |-> [name |-> n, notes |-> NotesOfChord(n)],
     suggestions |-> sugg]

\* Chord events of the store specification.
StoreNames == {"C", "F", "G"}

StoreSuggestions == {Suggestion("G", 10)}

StoreMsgs ==
    {ChordMsg(n, sugg) : n \in StoreNames \cup {NullName, ""},
                         sugg \in SeqsUpTo(StoreSuggestions, MaxSuggestions)}

(***************************************************************************)
(* ws.onmessage, the chord branch (part_005:192-234; app/page.tsx:131-172) *)
(***************************************************************************)

\* A notes map is the set of its entries, one per chord name.
NotesEntry(n, notes) == [chord |-> n, notes |-> notes]

\* notesMap[n] = notes
PutNotes(map, n, notes) ==
    {e \in map : e.chord # n} \cup {NotesEntry(n, notes)}

\* { ...prevMap, ...map }
SpreadNotes(prevMap, map) ==
    {e \in prevMap : \A f \in map : f.chord # e.chord} \cup map

RECURSIVE PutSuggestions(_, _)
PutSuggestions(map, suggestions) ==
    IF suggestions = <<>> THEN map
    ELSE PutSuggestions(PutNotes(map, Head(suggestions).name, Head(suggestions).notes),
                        Tail(suggestions))

\* createNotesMap (part_005:124-138)
CreateNotesMap(chordMsg) ==
    PutSuggestions(IF Falsy(chordMsg.chord.name) THEN {}
                   ELSE {NotesEntry(chordMsg.chord.name, chordMsg.chord.notes)},
                   chordMsg.suggestions)

\* Mutant: the chord branch merges in demo mode too.
ChordBranch_NoDemoGuard(msg) ==
    LET baseState == TransformToChordGraphState(msg, now)
    IN /\ lastMsg' = msg
       /\ keyboardHeldNotes' = IF Len(msg.chord.notes) = 0 THEN {} ELSE keyboardHeldNotes
       /\ IF baseState # Null
          THEN /\ chordGraphState' = ChordGraphUpdater(chordGraphState, baseState, now)
               /\ mergePrev' = chordGraphState
               /\ notesMap' = SpreadNotes(notesMap, CreateNotesMap(msg))
          ELSE UNCHANGED <<chordGraphState, mergePrev, notesMap>>

ChordBranch(msg) ==
    LET baseState == TransformToChordGraphState(msg, now)
    IN /\ lastMsg' = msg
       /\ keyboardHeldNotes' = IF Len(msg.chord.notes) = 0 THEN {} ELSE keyboardHeldNotes
       /\ IF baseState # Null /\ ~demoModeRef
          THEN /\ chordGraphState' = ChordGraphUpdater(chordGraphState, baseState, now)
               /\ mergePrev' = chordGraphState
               /\ notesMap' = SpreadNotes(notesMap, CreateNotesMap(msg))
          ELSE UNCHANGED <<chordGraphState, mergePrev, notesMap>>

LegacyChordBranch(msg) ==
    LET baseState == TransformToChordGraphState(msg, now)
    IN IF baseState # Null
       THEN /\ legacyChordGraphState' =
                   LegacyChordGraphUpdater(legacyChordGraphState, baseState, now)
            /\ legacyMergePrev' = legacyChordGraphState
       ELSE UNCHANGED legacyVars

\* useState initialiser of the legacy page (app/page.tsx:32-40)
LegacyInitialState ==
    [current  |-> [id |-> "initial-current", chordId |-> "C"],
     previous |-> <<>>,
     next     |-> <<[id |-> "initial-next-0", chordId |-> "F", probability |-> Rat(80, 100)],
                    [id |-> "initial-next-1", chordId |-> "G", probability |-> Rat(75, 100)],
                    [id |-> "initial-next-2", chordId |-> "Am", probability |-> Rat(85, 100)]>>]

\* The first render: a null state on an empty canvas, then the ref effect.
InitialView == [state |-> Null, previousState |-> Null, allNodes |-> <<>>]

(***************************************************************************)
(* The store under chord events: both pages fed the same event stream      *)
(***************************************************************************)

InitStore ==
    /\ status = "connected"
    /\ wsReadyState = "OPEN"
    /\ chordGraphState = Null
    /\ prevChordGraphStateRef = Null
    /\ demoModeRef = FALSE
    /\ pendingUpdates = 0
    /\ view = InitialView
    /\ legacyChordGraphState = LegacyInitialState
    /\ now = 0
    /\ mergePrev = NotRun
    /\ legacyMergePrev = NotRun
    /\ lastMsg = NoMsg
    /\ lastHandler = "none"
    /\ eventLog = <<>>
    /\ livePianoNotes = Null
    /\ liveNotesThrottleRef = IdleThrottle
    /\ liveBurst = <<>>
    /\ colorQuery = NoQuery
    /\ demoIndex = 0
    /\ notesMap = {}
    /\ keyboardHeldNotes = {}
    /\ historySeed = Null
    /\ keysDown = {}
    /\ closedThrottle = NotRun

ChordEvent(msg) ==
    /\ ChordBranch(msg)
    /\ LegacyChordBranch(msg)
    /\ lastHandler' = "onmessage"
    /\ UNCHANGED <<pageVars, now, eventLog,
                   liveVars, colorQuery,
                   demoIndex, envVars, closedThrottle>>

NextStore == \E msg \in StoreMsgs : ChordEvent(msg)

SpecStore == InitStore /\ [][NextStore]_vars


(***************************************************************************)
(* The Home page (part_005): socket handlers, buttons and renders          *)
(***************************************************************************)

\* Chord events of the page specification.
PageNames == {"C", "G"}

PageSuggestionLists == {<<>>, <<Suggestion("G", 10)>>, <<Suggestion("C", 10), Suggestion("G", 20)>>}

PageMsgs ==
    {ChordMsg(n, sugg) : n \in PageNames \cup {NullName}, sugg \in PageSuggestionLists}

Init ==
    /\ status = "disconnected"
    /\ wsReadyState = "NONE"
    /\ chordGraphState = Null
    /\ prevChordGraphStateRef = Null
    /\ demoModeRef = FALSE
    /\ pendingUpdates = 0
    /\ view = InitialView
    /\ legacyChordGraphState = LegacyInitialState
    /\ now = 0
    /\ mergePrev = NotRun
    /\ legacyMergePrev = NotRun
    /\ lastMsg = NoMsg
    /\ lastHandler = "none"
    /\ eventLog = <<>>
    /\ livePianoNotes = Null
    /\ liveNotesThrottleRef = IdleThrottle
    /\ liveBurst = <<>>
    /\ colorQuery = NoQuery
    /\ demoIndex = 0
    /\ notesMap = {}
    /\ keyboardHeldNotes = {}
    /\ historySeed = Null
    /\ keysDown = {}
    /\ closedThrottle = NotRun

\* A handler that sets React state leaves one more update to render.
Queued ==
    /\ pendingUpdates < MaxPending
    /\ pendingUpdates' = pendingUpdates + 1

\* connect(): the Connect button is shown while status is "disconnected".
\* wsRef.current, if any, is closed by then, so close() on it does nothing.
Connect ==
    /\ status = "disconnected"
    /\ wsReadyState \in {"NONE", "CLOSED"}
    /\ Queued
    /\ status' = "connecting"
    /\ wsReadyState' = "CONNECTING"
    /\ closedThrottle' = NotRun
    /\ lastHandler' = "connect"
    /\ UNCHANGED <<chordGraphState, prevChordGraphStateRef, demoModeRef, view,
                   legacyVars, now, mergePrev, lastMsg, eventLog,
                   liveVars, colorQuery,
                   demoIndex, homeVars, envVars>>

\* ws.onopen
WsOnOpen ==
    /\ wsReadyState = "CONNECTING"
    /\ Queued
    /\ wsReadyState' = "OPEN"
    /\ status' = "connected"
    /\ demoModeRef' = FALSE
    /\ lastHandler' = "onopen"
    /\ UNCHANGED <<chordGraphState, prevChordGraphStateRef, view, legacyVars, now,
                   mergePrev, lastMsg, eventLog,
                   liveVars, colorQuery,
                   demoIndex, homeVars, envVars, closedThrottle>>

\* ws.onmessage with a chord message
WsOnMessage(msg) ==
    /\ wsReadyState = "OPEN"
    /\ Queued
    /\ ChordBranch(msg)
    /\ lastHandler' = "onmessage"
    /\ UNCHANGED <<status, wsReadyState, prevChordGraphStateRef, demoModeRef, view,
                   legacyVars, now, eventLog,
                   liveVars, colorQuery,
                   demoIndex, envVars, closedThrottle>>

\* disconnect(): the Disconnect button is shown unless status is "disconnected".
Disconnect ==
    /\ status # "disconnected"
    /\ wsReadyState \in {"CONNECTING", "OPEN"}
    /\ wsReadyState' = "CLOSING"
    /\ lastHandler' = "disconnect"
    /\ UNCHANGED <<status, chordGraphState, prevChordGraphStateRef, demoModeRef,
                   pendingUpdates, view, legacyVars, now, mergePrev, lastMsg, eventLog,
                   liveVars, colorQuery,
                   demoIndex, homeVars, envVars, closedThrottle>>

\* Mutant: ws.onclose leaves the throttle timer and its pending sample alone.
WsOnClose_KeepTimer ==
    /\ wsReadyState \in {"CONNECTING", "OPEN", "CLOSING"}
    /\ Queued
    /\ wsReadyState' = "CLOSED"
    /\ status' = "disconnected"
    /\ livePianoNotes' = Null
    /\ closedThrottle' = liveNotesThrottleRef
    /\ lastHandler' = "onclose"
    /\ UNCHANGED <<chordGraphState, prevChordGraphStateRef, demoModeRef, view,
                   legacyVars, now, mergePrev, lastMsg, eventLog, liveBurst,
                   liveNotesThrottleRef, colorQuery,
                   demoIndex, homeVars, envVars>>

\* ws.onclose: after close(), a failed connect or a close by the server.
WsOnClose ==
    /\ wsReadyState \in {"CONNECTING", "OPEN", "CLOSING"}
    /\ Queued
    /\ wsReadyState' = "CLOSED"
    /\ status' = "disconnected"
    /\ livePianoNotes' = Null
    /\ liveNotesThrottleRef' = IdleThrottle
    /\ closedThrottle' = liveNotesThrottleRef
    /\ lastHandler' = "onclose"
    /\ UNCHANGED <<chordGraphState, prevChordGraphStateRef, demoModeRef, view,
                   legacyVars, now, mergePrev, lastMsg, eventLog, liveBurst,
                   colorQuery,
                   demoIndex, homeVars, envVars>>

\* endSession(): the POST and a log line.
EndSession ==
    /\ Queued
    /\ lastHandler' = "endSession"
    /\ UNCHANGED <<status, wsReadyState, chordGraphState, prevChordGraphStateRef,
                   demoModeRef, view, legacyVars, now, mergePrev, lastMsg, eventLog,
                   liveVars, colorQuery,
                   demoIndex, homeVars, envVars, closedThrottle>>

\* One render of Home with its ChordGraph, then the effect that stores the
\* rendered state in prevChordGraphStateRef (part_005:66-69, 638-641).
Render ==
    /\ pendingUpdates > 0
    /\ view' = [state         |-> chordGraphState,
                previousState |-> prevChordGraphStateRef,
                allNodes      |-> AllNodes(chordGraphState, prevChordGraphStateRef)]
    /\ prevChordGraphStateRef' = chordGraphState
    /\ pendingUpdates' = 0
    /\ UNCHANGED <<status, wsReadyState, chordGraphState, demoModeRef, legacyVars,
                   now, mergePrev, lastMsg, lastHandler, eventLog,
                   liveVars, colorQuery,
                   demoIndex, homeVars, envVars, closedThrottle>>

Next ==
    \/ Connect
    \/ WsOnOpen
    \/ \E msg \in PageMsgs : WsOnMessage(msg)
    \/ Disconnect
    \/ WsOnClose
    \/ EndSession
    \/ Render

Spec == Init /\ [][Next]_vars

(***************************************************************************)
(* The resolver on its own: one render of every (state, previousState)     *)
(***************************************************************************)

\* Longest history of the states handed to the resolver; their suggestion
\* lists have up to NEXT_KEEP entries, as transformToChordGraphState cuts them.
ResMaxPrevious == 3

ResNames == {"C", "G"}

PrevNodes(ids) == [k \in 1..Len(ids) |-> [id |-> "p" \o ToString(k - 1), chordId |-> ids[k]]]

NextNodes(ids) ==
    [k \in 1..Len(ids) |->
        [id |-> "n" \o ToString(k - 1), chordId |-> ids[k], probability |-> Rat(1, 2)]]

ResStates ==
    {[current  |-> [id |-> "c", chordId |-> c],
      previous |-> PrevNodes(p),
      next     |-> NextNodes(n)] :
        c \in ResNames,
        p \in SeqsUpTo(ResNames, ResMaxPrevious),
        n \in SeqsUpTo(ResNames, NEXT_KEEP)}

InitResolver ==
    /\ status = "connected"
    /\ wsReadyState = "OPEN"
    /\ chordGraphState \in ResStates
    /\ prevChordGraphStateRef \in ResStates \cup {Null}
    /\ demoModeRef = FALSE
    /\ pendingUpdates = 1
    /\ view = InitialView
    /\ legacyChordGraphState = LegacyInitialState
    /\ now = 0
    /\ mergePrev = NotRun
    /\ legacyMergePrev = NotRun
    /\ lastMsg = NoMsg
    /\ lastHandler = "none"
    /\ eventLog = <<>>
    /\ livePianoNotes = Null
    /\ liveNotesThrottleRef = IdleThrottle
    /\ liveBurst = <<>>
    /\ colorQuery = NoQuery
    /\ demoIndex = 0
    /\ notesMap = {}
    /\ keyboardHeldNotes = {}
    /\ historySeed = Null
    /\ keysDown = {}
    /\ closedThrottle = NotRun

NextResolver == Render

SpecResolver == InitResolver /\ [][NextResolver]_vars


(***************************************************************************)
(* Bounded runs of the Home page with the merged chord events logged       *)
(***************************************************************************)

\* The log after ws.onmessage handled msg: the event is logged with the clock
\* reading of its ids when the updater was queued for it.
Logged(msg) ==
    IF TransformToChordGraphState(msg, now) # Null /\ ~demoModeRef
    THEN Append(eventLog, [name |-> msg.chord.name, at |-> now])
    ELSE eventLog

\* ws.onmessage with a chord message, logged.
LoggedWsOnMessage(msg) ==
    /\ wsReadyState = "OPEN"
    /\ Queued
    /\ ChordBranch(msg)
    /\ lastHandler' = "onmessage"
    /\ eventLog' = Logged(msg)
    /\ UNCHANGED <<status, wsReadyState, prevChordGraphStateRef, demoModeRef, view,
                   legacyVars, now,
                   liveVars, colorQuery,
                   demoIndex, envVars, closedThrottle>>

\* The chord events C, F, Am, G, C played in this order on a connected page.
Scenario == <<"C", "F", "Am", "G", "C">>

ScenarioSuggestionLists ==
    {<<>>,
     <<Suggestion("C", 10)>>,
     <<Suggestion("F", 10), Suggestion("C", 20)>>,
     <<Suggestion("Am", 5), Suggestion("G", 7), Suggestion("Dm", 9)>>}

\* The next event of the scenario arrives, with any of the suggestion lists.
ScenarioEvent(sugg) ==
    /\ Len(eventLog) < Len(Scenario)
    /\ LoggedWsOnMessage(ChordMsg(Scenario[Len(eventLog) + 1], sugg))

NextScenario ==
    \/ \E sugg \in ScenarioSuggestionLists : ScenarioEvent(sugg)
    \/ Render

SpecScenario == InitStore /\ [][NextScenario]_vars


(***************************************************************************)
(* Chord colours: parseChord (part_005:9-22) and getChordColor             *)
(* (ChordGraph.tsx:871-915). A chord id is a sequence of characters.       *)
(***************************************************************************)

RootLetters == {"A", "B", "C", "D", "E", "F", "G"}

Accidentals == {"#", "b"}

\* chordId.match(/^([A-G][#b]?)(.*)/), with the fallback root 'C'
ParseChord(chordId) ==
    IF Len(chordId) = 0 \/ chordId[1] \notin RootLetters
    THEN [root |-> "C", suffix |-> <<>>]
    ELSE IF Len(chordId) >= 2 /\ chordId[2] \in Accidentals
    THEN [root |-> chordId[1] \o chordId[2], suffix |-> SubSeq(chordId, 3, Len(chordId))]
    ELSE [root |-> chordId[1], suffix |-> Tail(chordId)]

ColorSet(base, deep, light, text) ==
    [base |-> base, deep |-> deep, light |-> light, text |-> text]

ROOT_COLORS ==
    "C"  :> ColorSet("#dda0d0", "#c080b0", "#f6e4f4", "#6a2860") @@
    "C#" :> ColorSet("#c89ce8", "#a878d0", "#ecd8f8", "#502868") @@
    "D"  :> ColorSet("#a8a8f0", "#8484d8", "#dcdcfa", "#383078") @@
    "D#" :> ColorSet("#90b8f0", "#6c98d8", "#d4e4fa", "#284070") @@
    "E"  :> ColorSet("#88cce8", "#60acd0", "#d0eef8", "#205060") @@
    "F"  :> ColorSet("#80d4cc", "#58b8b0", "#ccf0ec", "#185850") @@
    "F#" :> ColorSet("#8cdcac", "#64c488", "#d0f4e0", "#1c5838") @@
    "G"  :> ColorSet("#a4d898", "#80c070", "#dcf2d4", "#2c5020") @@
    "G#" :> ColorSet("#c8d48c", "#a8b868", "#eef0d0", "#444c18") @@
    "A"  :> ColorSet("#e8c88c", "#d0a860", "#f8ecd4", "#5c4418") @@
    "A#" :> ColorSet("#f0b090", "#d89068", "#fae4d4", "#643420") @@
    "B"  :> ColorSet("#eca0a8", "#d47c88", "#f8dce0", "#682830")

FLAT_TO_SHARP ==
    "Db" :> "C#" @@ "Eb" :> "D#" @@ "Fb" :> "E" @@ "Gb" :> "F#" @@
    "Ab" :> "G#" @@ "Bb" :> "A#" @@ "Cb" :> "B"

\* FLAT_TO_SHARP[root] ?? root
NormalizeRoot(root) ==
    IF root \in DOMAIN FLAT_TO_SHARP THEN FLAT_TO_SHARP[root] ELSE root

DEFAULT_COLORS == ColorSet("#ccc0d4", "#a898b0", "#e8e0f0", "#504060")

\* ROOT_COLORS[normalizeRoot(root)] ?? DEFAULT_COLORS
GetChordColor(chordId) ==
    LET root == NormalizeRoot(ParseChord(chordId).root)
    IN IF root \in DOMAIN ROOT_COLORS THEN ROOT_COLORS[root] ELSE DEFAULT_COLORS

\* Longest chord id given to getChordColor.
MaxIdLen == 3

\* Characters of the chord ids: the root letters, the accidentals, a suffix
\* character and a letter that is no root.
ColorAlphabet == RootLetters \cup Accidentals \cup {"7", "h"}

ColorIds == SeqsUpTo(ColorAlphabet, MaxIdLen)

\* The ids of the second node: every root spelling, bare and with the suffix
\* "maj", and three ids without a root.
ColorOtherIds ==
    {<<l>> \o sfx : l \in RootLetters, sfx \in {<<>>, <<"m", "a", "j">>}}
    \cup {<<l, a>> \o sfx : l \in RootLetters, a \in Accidentals,
                            sfx \in {<<>>, <<"m", "a", "j">>}}
    \cup {<<>>, <<"h">>, <<"#">>}

InitColor ==
    /\ status = "connected"
    /\ wsReadyState = "OPEN"
    /\ chordGraphState = Null
    /\ prevChordGraphStateRef = Null
    /\ demoModeRef = FALSE
    /\ pendingUpdates = 0
    /\ view = InitialView
    /\ legacyChordGraphState = LegacyInitialState
    /\ now = 0
    /\ mergePrev = NotRun
    /\ legacyMergePrev = NotRun
    /\ lastMsg = NoMsg
    /\ lastHandler = "none"
    /\ eventLog = <<>>
    /\ livePianoNotes = Null
    /\ liveNotesThrottleRef = IdleThrottle
    /\ liveBurst = <<>>
    /\ colorQuery \in {[chordIds |-> <<a, b>>, colors |-> <<>>] :
                          a \in ColorIds, b \in ColorOtherIds}
    /\ demoIndex = 0
    /\ notesMap = {}
    /\ keyboardHeldNotes = {}
    /\ historySeed = Null
    /\ keysDown = {}
    /\ closedThrottle = NotRun

\* ChordNode: const cc = getChordColor(node.chordId), for two nodes.
ColorNodes ==
    /\ colorQuery.chordIds # <<>>
    /\ colorQuery.colors = <<>>
    /\ colorQuery' = [colorQuery EXCEPT
                         !.colors = <<GetChordColor(colorQuery.chordIds[1]),
                                      GetChordColor(colorQuery.chordIds[2])>>]
    /\ UNCHANGED <<status, wsReadyState, chordGraphState, prevChordGraphStateRef,
                   demoModeRef, pendingUpdates, view, legacyVars, now, mergePrev,
                   lastMsg, lastHandler, eventLog, liveVars,
                   demoIndex, homeVars, envVars, closedThrottle>>

NextColor == ColorNodes

SpecColor == InitColor /\ [][NextColor]_vars


(***************************************************************************)
(* Live notes: the live_notes branch of ws.onmessage and its throttle      *)
(* timer (part_005:175-190)                                                *)
(***************************************************************************)

\* setTimeout(..., 50)
LIVE_NOTES_THROTTLE_MS == 50

\* throttle.timer while the timeout is pending
ThrottleTimer == [delay |-> LIVE_NOTES_THROTTLE_MS]

\* A string[] of note names, as a value of livePianoNotes or throttle.pending.
Notes(names) == [notes |-> names]

LiveNotesMsg(names) == [type |-> "live_notes", notes |-> names]

\* The body of the live_notes branch: pending is overwritten; with no timer
\* running the sample is shown at once and the timer is started.
LiveNotesBranch(throttle, live, names) ==
    IF throttle.timer = Null
    THEN [live |-> Notes(names),
          throttle |-> [timer |-> ThrottleTimer, pending |-> Notes(names)]]
    ELSE [live |-> live,
          throttle |-> [throttle EXCEPT !.pending = Notes(names)]]

\* Mutant: the timer callback forgets the pending sample.
ThrottleTimeout_DropPending(throttle, live) ==
    [live |-> live, throttle |-> IdleThrottle]

\* The timer callback: the pending sample, if any, is shown; the throttle is idle.
ThrottleTimeout(throttle, live) ==
    [live |-> IF throttle.pending # Null THEN throttle.pending ELSE live,
     throttle |-> IdleThrottle]

\* live_notes messages received while one timer is running, the first included.
MaxBurst == 3

LiveSamples == {<<>>, <<"C4">>, <<"C4", "E4">>}

\* Mutant: the live sample is also filed in the notes map.
WsOnLiveNotes_Filed(names) ==
    LET r == LiveNotesBranch(liveNotesThrottleRef, livePianoNotes, names)
    IN /\ wsReadyState = "OPEN"
       /\ IF liveNotesThrottleRef.timer = Null
          THEN /\ Queued
               /\ liveBurst' = <<names>>
          ELSE /\ Len(liveBurst) < MaxBurst
               /\ liveBurst' = Append(liveBurst, names)
               /\ UNCHANGED pendingUpdates
       /\ livePianoNotes' = r.live
       /\ liveNotesThrottleRef' = r.throttle
       /\ lastMsg' = LiveNotesMsg(names)
       /\ lastHandler' = "onmessage"
       /\ notesMap' = PutNotes(notesMap, "live", names)
       /\ UNCHANGED <<status, wsReadyState, chordGraphState, prevChordGraphStateRef,
                      demoModeRef, view, legacyVars, now, mergePrev, eventLog,
                      colorQuery, demoIndex, keyboardHeldNotes, envVars, closedThrottle>>

\* ws.onmessage with a live_notes message
WsOnLiveNotes(names) ==
    LET r == LiveNotesBranch(liveNotesThrottleRef, livePianoNotes, names)
    IN /\ wsReadyState = "OPEN"
       /\ IF liveNotesThrottleRef.timer = Null
          THEN /\ Queued
               /\ liveBurst' = <<names>>
          ELSE /\ Len(liveBurst) < MaxBurst
               /\ liveBurst' = Append(liveBurst, names)
               /\ UNCHANGED pendingUpdates
       /\ livePianoNotes' = r.live
       /\ liveNotesThrottleRef' = r.throttle
       /\ lastMsg' = LiveNotesMsg(names)
       /\ lastHandler' = "onmessage"
       /\ UNCHANGED <<status, wsReadyState, chordGraphState, prevChordGraphStateRef,
                      demoModeRef, view, legacyVars, now, mergePrev, eventLog,
                      colorQuery,
                   demoIndex, homeVars, envVars, closedThrottle>>

\* The callback of the throttle timer
ThrottleTimerFires ==
    LET r == ThrottleTimeout(liveNotesThrottleRef, livePianoNotes)
    IN /\ liveNotesThrottleRef.timer # Null
       /\ IF liveNotesThrottleRef.pending # Null
          THEN Queued
          ELSE UNCHANGED pendingUpdates
       /\ livePianoNotes' = r.live
       /\ liveNotesThrottleRef' = r.throttle
       /\ lastHandler' = "throttleTimer"
       /\ UNCHANGED <<status, wsReadyState, chordGraphState, prevChordGraphStateRef,
                      demoModeRef, view, legacyVars, now, mergePrev, lastMsg,
                      eventLog, liveBurst, colorQuery,
                   demoIndex, homeVars, envVars, closedThrottle>>

NextLive ==
    \/ Connect
    \/ WsOnOpen
    \/ \E names \in LiveSamples : WsOnLiveNotes(names)
    \/ ThrottleTimerFires
    \/ Disconnect
    \/ WsOnClose
    \/ Render

SpecLive == Init /\ [][NextLive]_vars


(***************************************************************************)
(* One chord event merged onto any prior state                             *)
(***************************************************************************)

TransformNames == {"C", "G"}

\* Tensions in hundredths: 0, 0.1 and 0.3.
TransformSuggestions == {Suggestion("C", 0), Suggestion("G", 10), Suggestion("F", 30)}

TransformMsgs ==
    {ChordMsg(n, sugg) : n \in TransformNames \cup {NullName},
                         sugg \in SeqsUpTo(TransformSuggestions, MaxSuggestions)}

InitTransform ==
    /\ status = "connected"
    /\ wsReadyState = "OPEN"
    /\ chordGraphState \in ResStates \cup {Null}
    /\ prevChordGraphStateRef = Null
    /\ demoModeRef = FALSE
    /\ pendingUpdates = 0
    /\ view = InitialView
    /\ legacyChordGraphState = LegacyInitialState
    /\ now = 0
    /\ mergePrev = NotRun
    /\ legacyMergePrev = NotRun
    /\ lastMsg = NoMsg
    /\ lastHandler = "none"
    /\ eventLog = <<>>
    /\ livePianoNotes = Null
    /\ liveNotesThrottleRef = IdleThrottle
    /\ liveBurst = <<>>
    /\ colorQuery = NoQuery
    /\ demoIndex = 0
    /\ notesMap = {}
    /\ keyboardHeldNotes = {}
    /\ historySeed = Null
    /\ keysDown = {}
    /\ closedThrottle = NotRun

\* The first chord message reaches both pages.
FirstChordEvent(msg) ==
    /\ lastMsg = NoMsg
    /\ ChordEvent(msg)

NextTransform == \E msg \in TransformMsgs : FirstChordEvent(msg)

SpecTransform == InitTransform /\ [][NextTransform]_vars


(***************************************************************************)
(* The store under a bounded stream of named chord events, with the clock  *)
(***************************************************************************)

\* Longest stream of chord events.
MaxEvents == 7

\* Last reading of the millisecond clock.
MaxNow == 1

LogNames == {"C", "F", "G"}

LogMsgs == {ChordMsg(n, sugg) : n \in LogNames, sugg \in {<<>>, <<Suggestion("G", 10)>>}}

\* A chord message reaches both pages and is logged. The updater runs at
\* once, so that prev-${Date.now()} reads the clock of the handler.
LoggedChordEvent(msg) ==
    /\ Len(eventLog) < MaxEvents
    /\ ChordBranch(msg)
    /\ LegacyChordBranch(msg)
    /\ lastHandler' = "onmessage"
    /\ eventLog' = Logged(msg)
    /\ UNCHANGED <<pageVars, now, liveVars, colorQuery,
                   demoIndex, envVars, closedThrottle>>

\* Date.now() moves on by a millisecond.
Tick ==
    /\ now < MaxNow
    /\ now' = now + 1
    /\ UNCHANGED <<pageVars, chordGraphState, legacyVars, mergePrev, lastMsg,
                   lastHandler, eventLog, liveVars, colorQuery,
                   demoIndex, homeVars, envVars, closedThrottle>>

NextLog ==
    \/ \E msg \in LogMsgs : LoggedChordEvent(msg)
    \/ Tick

SpecLog == InitStore /\ [][NextLog]_vars


(***************************************************************************)
(* Demo mode: DEMO_STATES, CHORD_CYCLE, DEMO_NEXT, cycleDemo               *)
(* (part_005:347-494)                                                      *)
(***************************************************************************)

DemoNode(id, c) == [id |-> id, chordId |-> c]

\* A suggestion node of the demo tables, its probability in hundredths.
DemoNext(id, c, p) == [id |-> id, chordId |-> c, probability |-> Rat(p, 100)]

NotesMapOf(names) == {NotesEntry(n, NotesOfChord(n)) : n \in names}

\* DEMO_STATES[0..5] are DEMO_STATES[1..6] here.
DEMO_STATES ==
    << [state |->
           [current  |-> DemoNode("d1-c", "C"),
            previous |-> <<>>,
            next     |-> <<DemoNext("d1-n0", "F", 80), DemoNext("d1-n1", "G", 75),
                           DemoNext("d1-n2", "Am", 85)>>],
        notesMap |-> NotesMapOf({"C", "F", "G", "Am"})],
       [state |->
           [current  |-> DemoNode("d2-c", "F"),
            previous |-> <<DemoNode("d2-p0", "C")>>,
            next     |-> <<DemoNext("d2-n0", "G", 90), DemoNext("d2-n1", "Am", 70),
                           DemoNext("d2-n2", "C", 65)>>],
        notesMap |-> NotesMapOf({"F", "G", "Am", "C"})],
       [state |->
           [current  |-> DemoNode("d3-c", "Am"),
            previous |-> <<DemoNode("d3-p0", "F"), DemoNode("d3-p1", "C")>>,
            next     |-> <<DemoNext("d3-n0", "F", 88), DemoNext("d3-n1", "G", 72),
                           DemoNext("d3-n2", "Em", 60)>>],
        notesMap |-> NotesMapOf({"Am", "F", "G", "Em"})],
       [state |->
           [current  |-> DemoNode("d4-c", "G"),
            previous |-> <<DemoNode("d4-p0", "Am"), DemoNode("d4-p1", "F"),
                           DemoNode("d4-p2", "C")>>,
            next     |-> <<DemoNext("d4-n0", "C", 95), DemoNext("d4-n1", "Am", 80),
                           DemoNext("d4-n2", "D", 50)>>],
        notesMap |-> NotesMapOf({"G", "C", "Am", "D", "F"})],
       [state |->
           [current  |-> DemoNode("d5-c", "C"),
            previous |-> <<DemoNode("d5-p0", "G"), DemoNode("d5-p1", "Am"),
                           DemoNode("d5-p2", "F"), DemoNode("d5-p3", "C")>>,
            next     |-> <<DemoNext("d5-n0", "F", 95), DemoNext("d5-n1", "G", 80),
                           DemoNext("d5-n2", "Am", 60)>>],
        notesMap |-> NotesMapOf({"C", "F", "G", "Am"})],
       [state |->
           [current  |-> DemoNode("d6-c", "F"),
            previous |-> <<DemoNode("d6-p0", "C"), DemoNode("d6-p1", "G"),
                           DemoNode("d6-p2", "Am"), DemoNode("d6-p3", "F"),
                           DemoNode("d6-p4", "C")>>,
            next     |-> <<DemoNext("d6-n0", "G", 90), DemoNext("d6-n1", "Am", 70),
                           DemoNext("d6-n2", "C", 65)>>],
        notesMap |-> NotesMapOf({"F", "G", "Am", "C"})] >>

\* const maxIdx = n - 1
DemoMaxIdx == Len(DEMO_STATES) - 1

CHORD_CYCLE == <<"C", "F", "Am", "G">>

\* CHORD_CYCLE.indexOf(c): 0-based, -1 when absent.
CycleIndexOf(c) ==
    IF \E k \in 1..Len(CHORD_CYCLE) : CHORD_CYCLE[k] = c
    THEN (CHOOSE k \in 1..Len(CHORD_CYCLE) : CHORD_CYCLE[k] = c) - 1
    ELSE -1

\* DEMO_NEXT[c], Undefined for a chord that has no entry.
DEMO_NEXT(c) ==
    CASE c = "C"  -> <<DemoNext("next-0", "F", 80), DemoNext("next-1", "G", 75),
                       DemoNext("next-2", "Am", 85)>>
      [] c = "F"  -> <<DemoNext("next-0", "G", 90), DemoNext("next-1", "Am", 70),
                       DemoNext("next-2", "C", 65)>>
      [] c = "Am" -> <<DemoNext("next-0", "F", 88), DemoNext("next-1", "G", 72),
                       DemoNext("next-2", "Em", 60)>>
      [] c = "G"  -> <<DemoNext("next-0", "C", 95), DemoNext("next-1", "Am", 80),
                       DemoNext("next-2", "D", 50)>>
      [] OTHER    -> Undefined

\* ].slice(0, 5) of cycleDemo
DEMO_HISTORY_KEEP == 5

\* Mutant: the cycle is not moved on.
NextChordId_Stay(chordId) ==
    CHORD_CYCLE[(CycleIndexOf(chordId) % Len(CHORD_CYCLE)) + 1]

\* CHORD_CYCLE[(cycleIdx + 1) % CHORD_CYCLE.length]
NextChordId(chordId) ==
    CHORD_CYCLE[((CycleIndexOf(chordId) + 1) % Len(CHORD_CYCLE)) + 1]

\* The setChordGraphState updater of cycleDemo at the last index.
CycleDemoUpdater(prev, t) ==
    IF prev = Null THEN DEMO_STATES[DemoMaxIdx + 1].state
    ELSE LET nextChordId == NextChordId(prev.current.chordId)
             newPrevious ==
                 Slice0(<<[id |-> PrevId(t), chordId |-> prev.current.chordId]>>
                            \o prev.previous,
                        DEMO_HISTORY_KEEP)
         IN [current  |-> [id |-> CurrentId(t), chordId |-> nextChordId],
             previous |-> newPrevious,
             next     |-> IF DEMO_NEXT(nextChordId) # Undefined
                          THEN DEMO_NEXT(nextChordId)
                          ELSE prev.next]

\* Mutant: the index is moved on at the last index too.
DemoStep_Wrap(i) == IF i < DemoMaxIdx THEN i + 1 ELSE 0

\* demoIndex after a click.
DemoStep(i) == IF i < DemoMaxIdx THEN i + 1 ELSE i

\* cycleDemo(): the Demo button is always shown.
CycleDemo ==
    /\ Queued
    /\ demoModeRef' = TRUE
    /\ demoIndex' = DemoStep(demoIndex)
    /\ IF demoIndex < DemoMaxIdx
       THEN /\ chordGraphState' = DEMO_STATES[demoIndex + 2].state
            /\ notesMap' = DEMO_STATES[demoIndex + 2].notesMap
       ELSE /\ chordGraphState' = CycleDemoUpdater(chordGraphState, now)
            /\ UNCHANGED notesMap
    /\ lastHandler' = "cycleDemo"
    /\ UNCHANGED <<status, wsReadyState, prevChordGraphStateRef, view, legacyVars, now,
                   mergePrev, lastMsg, eventLog, liveVars, colorQuery,
                   keyboardHeldNotes, envVars, closedThrottle>>

(***************************************************************************)
(* The history seed: hydration on mount (part_005:71-91)                   *)
(***************************************************************************)

\* Longest history of a seed.
MaxSeedPrevious == 6

SeedNames == {"C", "G"}

\* A history of n entries G, C, G, C, ...
SeedTrail(n) == [k \in 1..n |-> IF k % 2 = 1 THEN "G" ELSE "C"]

\* A HistorySeed as the History page serialises it: current, previous[],
\* next[] and a notes map.
HistorySeedOf(c, p, n) ==
    [current  |-> [id |-> "seed-c", chordId |-> c],
     previous |-> [k \in 1..Len(p) |-> [id |-> "seed-p" \o ToString(k - 1), chordId |-> p[k]]],
     next     |-> [k \in 1..Len(n) |->
                      [id |-> "seed-n" \o ToString(k - 1), chordId |-> n[k],
                       probability |-> Rat(1, 2)]],
     notesMap |-> NotesMapOf({c} \cup {p[k] : k \in 1..Len(p)} \cup {n[k] : k \in 1..Len(n)})]

HistorySeeds ==
    {HistorySeedOf(c, SeedTrail(len), n) :
        c \in SeedNames, len \in 0..MaxSeedPrevious, n \in {<<>>, <<"G", "F">>}}

\* The state setChordGraphState gets from the seed: seed.previous ?? [].
SeededState(seed) ==
    [current |-> seed.current, previous |-> seed.previous, next |-> seed.next]

\* Mutant: the hydrated state is stored as the snapshot too.
HydratedSnapshot_Seeded(seed, ref) == SeededState(seed)

\* prevChordGraphStateRef after the seed effect: the effect does not write it.
HydratedSnapshot(seed, ref) == ref

\* The seed effect of the mount, with an item in sessionStorage. The effects
\* of the mount run before any handler does.
HydrateSeed ==
    /\ historySeed # Null
    /\ Queued
    /\ historySeed' = Null
    /\ chordGraphState' = SeededState(historySeed)
    /\ notesMap' = historySeed.notesMap
    /\ demoModeRef' = FALSE
    /\ prevChordGraphStateRef' = HydratedSnapshot(historySeed, prevChordGraphStateRef)
    /\ lastHandler' = "hydrate"
    /\ UNCHANGED <<status, wsReadyState, view, legacyVars, now, mergePrev, lastMsg,
                   eventLog, liveVars, colorQuery, demoIndex, keyboardHeldNotes,
                   keysDown, closedThrottle>>

\* The mount effects are over: no seed is waiting in sessionStorage.
Mounted == historySeed = Null

\* Chord events of the seeded page.
SeedMsgs == {ChordMsg(n, <<Suggestion("G", 10)>>) : n \in {"C", "G", "Dm"}}

\* Chord events handled in a run of the seeded page.
MaxSeedEvents == 2

InitSeed ==
    /\ status = "disconnected"
    /\ wsReadyState = "NONE"
    /\ chordGraphState = Null
    /\ prevChordGraphStateRef = Null
    /\ demoModeRef = FALSE
    /\ pendingUpdates = 0
    /\ view = InitialView
    /\ legacyChordGraphState = LegacyInitialState
    /\ now = 0
    /\ mergePrev = NotRun
    /\ legacyMergePrev = NotRun
    /\ lastMsg = NoMsg
    /\ lastHandler = "none"
    /\ eventLog = <<>>
    /\ livePianoNotes = Null
    /\ liveNotesThrottleRef = IdleThrottle
    /\ liveBurst = <<>>
    /\ colorQuery = NoQuery
    /\ demoIndex = 0
    /\ notesMap = {}
    /\ keyboardHeldNotes = {}
    /\ historySeed \in HistorySeeds \cup {Null}
    /\ keysDown = {}
    /\ closedThrottle = NotRun

NextSeed ==
    \/ HydrateSeed
    \/ Mounted /\ Connect
    \/ Mounted /\ WsOnOpen
    \/ Mounted /\ Len(eventLog) < MaxSeedEvents /\ \E msg \in SeedMsgs : LoggedWsOnMessage(msg)
    \/ Mounted /\ CycleDemo
    \/ Mounted /\ Render

SpecSeed == InitSeed /\ [][NextSeed]_vars

(***************************************************************************)
(* The history edges: prevEdges of ChordGraph (ChordGraph.tsx:707-729)     *)
(***************************************************************************)

\* One edge, with the slot keys its end points were looked up by.
PrevEdge(fromSlot, toSlot) ==
    [fromSlot |-> fromSlot, toSlot |-> toSlot,
     from |-> GetAbsPos(fromSlot), to |-> GetAbsPos(toSlot)]

\* center -> prev-0, then prev-j -> prev-(j+1) for j < previous.length - 1;
\* previous is not cut to MAX_HISTORY here.
PrevEdges(state) ==
    IF Len(state.previous) = 0 THEN <<>>
    ELSE <<PrevEdge("center", "prev-0")>>
         \o [j \in 1..(Len(state.previous) - 1) |-> PrevEdge(PrevSlot(j - 1), PrevSlot(j))]

(***************************************************************************)
(* ws.onmessage with the messages that are no chord message                *)
(* (part_005:169-238)                                                      *)
(***************************************************************************)

\* e.data that JSON.parse rejects.
Unparseable == [raw |-> "not json"]

\* Parsed data whose type is neither "live_notes" nor "chord".
OtherMsgs == {[type |-> "status"], [type |-> "notes"]}

IsChordMsg(data) == "type" \in DOMAIN data /\ data.type = "chord"

\* ws.onmessage with data of another type: neither branch is taken. With
\* data that does not parse, the catch clause logs the raw text.
WsOnOtherMessage(data) ==
    /\ wsReadyState = "OPEN"
    /\ IF data = Unparseable THEN Queued ELSE UNCHANGED pendingUpdates
    /\ lastMsg' = data
    /\ lastHandler' = "onmessage"
    /\ UNCHANGED <<status, wsReadyState, chordGraphState, prevChordGraphStateRef,
                   demoModeRef, view, legacyVars, now, mergePrev, eventLog,
                   liveVars, colorQuery, demoIndex, homeVars, envVars, closedThrottle>>

\* Chord events of the page that gets every kind of message.
MixedMsgs ==
    {ChordMsg(n, sugg) : n \in {"C", "G", NullName},
                         sugg \in {<<>>, <<Suggestion("F", 10)>>}}

\* Chord events merged in a run of that page.
MaxMixedEvents == 2

NextMixed ==
    \/ Connect
    \/ WsOnOpen
    \/ Len(eventLog) < MaxMixedEvents /\ \E msg \in MixedMsgs : LoggedWsOnMessage(msg)
    \/ \E names \in LiveSamples : WsOnLiveNotes(names)
    \/ ThrottleTimerFires
    \/ \E data \in OtherMsgs \cup {Unparseable} : WsOnOtherMessage(data)
    \/ WsOnClose
    \/ Render

SpecMixed == Init /\ [][NextMixed]_vars

(***************************************************************************)
(* The Home page with live chords and Demo clicks, no history seed         *)
(***************************************************************************)

\* Chord events of the demo page: chords of the demo tables and one that is
\* in none of them.
DemoMsgs == {ChordMsg(n, <<Suggestion("G", 10)>>) : n \in {"C", "Dm"}}

\* Chord events merged in a run of the demo page.
MaxDemoEvents == 3

NextDemo ==
    \/ Connect
    \/ WsOnOpen
    \/ Len(eventLog) < MaxDemoEvents /\ \E msg \in DemoMsgs : LoggedWsOnMessage(msg)
    \/ CycleDemo
    \/ Render

SpecDemo == Init /\ [][NextDemo]_vars

(***************************************************************************)
(* Chord events rendered one by one: each state is resolved against the    *)
(* state before its event                                                  *)
(***************************************************************************)

ShiftMsgs ==
    {ChordMsg(n, sugg) : n \in {"C", "G"}, sugg \in {<<>>, <<Suggestion("C", 10)>>}}

\* Chord events of a run rendered event by event.
MaxShiftEvents == 5

\* A chord event arrives after the render of the event before it.
RenderedChordEvent(msg) ==
    /\ pendingUpdates = 0
    /\ Len(eventLog) < MaxShiftEvents
    /\ LoggedWsOnMessage(msg)

NextShift ==
    \/ \E msg \in ShiftMsgs : RenderedChordEvent(msg)
    \/ Render

SpecShift == InitStore /\ [][NextShift]_vars

(***************************************************************************)
(* The computer keyboard as a piano: KEY_TO_MIDI (keyboardToMidi.ts:6-19), *)
(* handleKeyDown and handleKeyUp (part_005:266-286)                        *)
(***************************************************************************)

KEY_TO_MIDI ==
    "a" :> 60 @@ "w" :> 61 @@ "s" :> 62 @@ "e" :> 63 @@ "d" :> 64 @@ "f" :> 65 @@
    "t" :> 66 @@ "g" :> 67 @@ "y" :> 68 @@ "h" :> 69 @@ "u" :> 70 @@ "j" :> 71

\* e.key.toLowerCase(), for the keys pressed here.
ToLowerCase(key) ==
    CASE key = "A" -> "a"
      [] key = "S" -> "s"
      [] OTHER     -> key

\* e.key of the key events: two piano keys, one of them also with Shift
\* held, and a key that is no piano key.
EventKeys == {"a", "A", "s", "q"}

\* KEY_TO_MIDI[e.key.toLowerCase()] !== undefined
Mapped(key) == ToLowerCase(key) \in DOMAIN KEY_TO_MIDI

\* KEY_TO_MIDI[e.key.toLowerCase()] of a mapped key
MidiOf(key) == KEY_TO_MIDI[ToLowerCase(key)]

\* handleKeyDown for a key event outside the text inputs; repeat is e.repeat,
\* set on the events the held key keeps sending.
HandleKeyDown(key, repeat) ==
    /\ IF repeat
       THEN /\ ToLowerCase(key) \in keysDown
            /\ UNCHANGED keysDown
       ELSE /\ ToLowerCase(key) \notin keysDown
            /\ keysDown' = keysDown \cup {ToLowerCase(key)}
    /\ IF ~Mapped(key) \/ repeat
       THEN UNCHANGED <<pendingUpdates, keyboardHeldNotes>>
       ELSE /\ Queued
            /\ keyboardHeldNotes' = keyboardHeldNotes \cup {MidiOf(key)}
    /\ lastHandler' = "keydown"
    /\ UNCHANGED <<status, wsReadyState, chordGraphState, prevChordGraphStateRef,
                   demoModeRef, view, legacyVars, now, mergePrev, lastMsg, eventLog,
                   liveVars, colorQuery, demoIndex, notesMap, historySeed,
                   closedThrottle>>

\* handleKeyUp for a key event outside the text inputs.
HandleKeyUp(key) ==
    /\ ToLowerCase(key) \in keysDown
    /\ keysDown' = keysDown \ {ToLowerCase(key)}
    /\ IF ~Mapped(key)
       THEN UNCHANGED <<pendingUpdates, keyboardHeldNotes>>
       ELSE /\ Queued
            /\ keyboardHeldNotes' = keyboardHeldNotes \ {MidiOf(key)}
    /\ lastHandler' = "keyup"
    /\ UNCHANGED <<status, wsReadyState, chordGraphState, prevChordGraphStateRef,
                   demoModeRef, view, legacyVars, now, mergePrev, lastMsg, eventLog,
                   liveVars, colorQuery, demoIndex, notesMap, historySeed,
                   closedThrottle>>

\* Chord messages of the keyboard page: a chord with its notes and the
\* message of a release, which has no notes.
KeyMsgs == {ChordMsg("C", <<>>), ChordMsg(NullName, <<>>)}

NextKeys ==
    \/ Connect
    \/ WsOnOpen
    \/ \E msg \in KeyMsgs : WsOnMessage(msg)
    \/ \E key \in EventKeys, repeat \in BOOLEAN : HandleKeyDown(key, repeat)
    \/ \E key \in EventKeys : HandleKeyUp(key)
    \/ WsOnClose
    \/ Render

SpecKeys == Init /\ [][NextKeys]_vars

(***************************************************************************)
(* Properties                                                              *)
(***************************************************************************)

Ran(st) == st # NotRun /\ st # Null

\* The lowest 0-based index of chordId c in s, -1 when there is none.
LowestIndex(s, c) ==
    IF \E k \in 1..Len(s) : s[k].chordId = c
    THEN (CHOOSE k \in 1..Len(s) :
             /\ s[k].chordId = c
             /\ \A m \in 1..(k - 1) : s[m].chordId # c) - 1
    ELSE -1

\* The absolute position of a slot of the table.
SlotPos(slot) ==
    [x |-> CENTER.x + SLOT_POSITIONS[slot].x, y |-> CENTER.y + SLOT_POSITIONS[slot].y]

EntriesOf(role) == SelectSeq(view.allNodes, LAMBDA e : e.role = role)

Plain(e) ==
    /\ e.animateFromPosition = Undefined
    /\ e.animateFromScale = Undefined
    /\ ChordNodeInitial(e).motion = "none"
    /\ ChordNodeInitial(e).x = SlotPos(e.slot).x
    /\ ChordNodeInitial(e).y = SlotPos(e.slot).y

\* C1. History bound: after every chord event, from the absent state of the
\* Home page and from the initial state of the legacy page, previous holds at
\* most MAX_HISTORY = 5 entries on the Home page and at most 3 on the legacy
\* page.
C1_HistoryBound ==
    /\ chordGraphState # Null => Len(chordGraphState.previous) <= MAX_HISTORY
    /\ Len(legacyChordGraphState.previous) <= LEGACY_HISTORY_KEEP

\* A chord change on a full history: the tail entry was dropped on both pages.
C1_Witness ==
    /\ Ran(mergePrev)
    /\ Len(mergePrev.previous) = MAX_HISTORY
    /\ chordGraphState.current.chordId # mergePrev.current.chordId
    /\ Len(chordGraphState.previous) = MAX_HISTORY
    /\ Ran(legacyMergePrev)
    /\ Len(legacyMergePrev.previous) = LEGACY_HISTORY_KEEP
    /\ Len(legacyChordGraphState.previous) = LEGACY_HISTORY_KEEP

\* C2. No spurious history on repeat: when the updater ran on a state whose
\* current chordId is the chordId of the event, previous of the merged state
\* is the previous list of that state, entry by entry.
C2_RepeatKeepsPrevious ==
    (Ran(mergePrev) /\ chordGraphState.current.chordId = mergePrev.current.chordId)
        => chordGraphState.previous = mergePrev.previous

\* The chord of a state with a history of two was re-triggered.
C2_Witness ==
    /\ Ran(mergePrev)
    /\ lastMsg.chord.name = mergePrev.current.chordId
    /\ chordGraphState.current.chordId = mergePrev.current.chordId
    /\ Len(mergePrev.previous) >= 2
    /\ chordGraphState.next # mergePrev.next

\* C3. Prepend-and-truncate order: when the updater ran on a state with
\* current X and the event names another chord, previous of the merged state
\* is X followed by the old entries in their order, cut to MAX_HISTORY: X is
\* at index 0 and only tail entries are dropped.
C3_PrependAndTruncate ==
    (Ran(mergePrev) /\ chordGraphState.current.chordId # mergePrev.current.chordId)
        => LET new == chordGraphState.previous
               old == mergePrev.previous
           IN /\ Len(new) = Min(Len(old) + 1, MAX_HISTORY)
              /\ new[1].chordId = mergePrev.current.chordId
              /\ \A k \in 2..Len(new) : new[k] = old[k - 1]

\* A chord change on a full history of three different chords.
C3_Witness ==
    /\ Ran(mergePrev)
    /\ chordGraphState.current.chordId # mergePrev.current.chordId
    /\ Len(mergePrev.previous) = MAX_HISTORY
    /\ Cardinality({mergePrev.previous[k].chordId : k \in 1..MAX_HISTORY}) = 3
    /\ mergePrev.previous[MAX_HISTORY].chordId # mergePrev.previous[MAX_HISTORY - 1].chordId

\* C4. Chord release resets the store: after a chord message whose name is
\* null or empty, the graph state is absent.
C4_ReleaseResetsStore ==
    (lastMsg # NoMsg /\ Falsy(lastMsg.chord.name)) => chordGraphState = Null

\* C5. Session switch discards state and snapshot together: after ws.onclose,
\* after ws.onopen and after End Session, the graph state and the snapshot are
\* both absent.
C5_SessionSwitchDiscards ==
    lastHandler \in {"onclose", "onopen", "endSession"}
        => chordGraphState = Null /\ prevChordGraphStateRef = Null


\* The render looked at here: a state and a snapshot that are both present.
Diffed == view.state # Null /\ view.previousState # Null

CurrentNode == EntriesOf("current")[1]

\* The chord changed and is one of the snapshot's suggestions.
PromotionCase ==
    /\ Diffed
    /\ view.state.current.chordId # view.previousState.current.chordId
    /\ LowestIndex(view.previousState.next, view.state.current.chordId) >= 0

\* C6. Promotion matching: when the snapshot is present, the chord changed and
\* the new chordId is among the snapshot's suggestions, the current node starts
\* at the absolute position of slot next-i, i the lowest matching index, at
\* scale 1.
C6_PromotionFromFirstMatch ==
    PromotionCase =>
        LET i    == LowestIndex(view.previousState.next, view.state.current.chordId)
            from == SlotPos(NextSlot(i))
        IN /\ CurrentNode.animateFromPosition = from
           /\ ChordNodeInitial(CurrentNode).x = from.x
           /\ ChordNodeInitial(CurrentNode).y = from.y
           /\ RatEq(ChordNodeInitial(CurrentNode).scale, Rat(1, 1))

\* The promoted chord was listed at next-1 and at next-2, not at next-0:
\* the current node is sent from next-1.
C6_Witness ==
    /\ PromotionCase
    /\ Len(view.previousState.next) = 3
    /\ view.previousState.next[1].chordId # view.state.current.chordId
    /\ view.previousState.next[2].chordId = view.state.current.chordId
    /\ view.previousState.next[3].chordId = view.state.current.chordId
    /\ CurrentNode.animateFromPosition = SlotPos("next-1")

\* C7. Promotion degrades to a plain fade-in: with a snapshot present, when
\* the new chordId is none of the snapshot's suggestions or is the snapshot's
\* current chordId, the current node has no origin and no scale and starts
\* at its own slot.
C7_NoPromotionPlainFadeIn ==
    (Diffed /\ ~PromotionCase) => Plain(CurrentNode)

\* The chord is unchanged and listed among the snapshot's suggestions.
C7_Witness ==
    /\ Diffed
    /\ view.state.current.chordId = view.previousState.current.chordId
    /\ LowestIndex(view.previousState.next, view.state.current.chordId) >= 0
    /\ Plain(CurrentNode)

\* The newest history entry is the snapshot's current chord.
DemotionCase ==
    /\ Diffed
    /\ Len(view.state.previous) > 0
    /\ view.state.previous[1].chordId = view.previousState.current.chordId

\* C8 as stated. Demotion origin and scale: previous[0] starts at the center
\* position with scale previous radius / current radius = 32/55.
C8_DemotionScalePrevOverCurrent ==
    DemotionCase =>
        /\ EntriesOf("previous")[1].animateFromPosition = SlotPos("center")
        /\ RatEq(EntriesOf("previous")[1].animateFromScale,
                 Rat(RoleRadius("previous"), RoleRadius("current")))

\* C8, amended. Demotion origin and scale: previous[0] starts at the center
\* position with scale current radius / previous radius = 55/32, the size of
\* the current sphere, and shrinks to its own size.
C8_DemotionScaleCurrentOverPrev ==
    DemotionCase =>
        LET head == EntriesOf("previous")[1]
        IN /\ head.animateFromPosition = SlotPos("center")
           /\ RatEq(head.animateFromScale,
                    Rat(RoleRadius("current"), RoleRadius("previous")))
           /\ ChordNodeInitial(head).x = SlotPos("center").x
           /\ ChordNodeInitial(head).y = SlotPos("center").y
           /\ RatEq(ChordNodeInitial(head).scale,
                    Rat(RoleRadius("current"), RoleRadius("previous")))

\* A demotion after a chord change, with older history behind the head.
C8_Witness ==
    /\ DemotionCase
    /\ view.state.current.chordId # view.previousState.current.chordId
    /\ Len(view.state.previous) >= 2
    /\ EntriesOf("previous")[1].animateFromScale # Undefined

\* previous[i] (0-based) is the demoted head.
DemotedHead(i) == i = 0 /\ DemotionCase

\* C9. Shift within history: with a snapshot present, a history node
\* previous[i] that is not the demoted head starts at slot prev-j without a
\* scale when j, the lowest index of its chordId in the snapshot's history,
\* exists and differs from i; otherwise it has no origin at all.
C9_ShiftFromFirstOldSlot ==
    Diffed =>
        \A i \in 0..(Len(view.state.previous) - 1) :
            ~DemotedHead(i) =>
                LET e == EntriesOf("previous")[i + 1]
                    j == LowestIndex(view.previousState.previous,
                                     view.state.previous[i + 1].chordId)
                IN IF j >= 0 /\ j # i
                   THEN /\ e.animateFromPosition = SlotPos(PrevSlot(j))
                        /\ e.animateFromScale = Undefined
                        /\ ChordNodeInitial(e).x = SlotPos(PrevSlot(j)).x
                        /\ ChordNodeInitial(e).y = SlotPos(PrevSlot(j)).y
                   ELSE Plain(e)

\* A chord that stood twice in the snapshot's history, at prev-1 and prev-2,
\* and stands at prev-2 now: it is sent from prev-1.
C9_Witness ==
    /\ Diffed
    /\ Len(view.state.previous) = 3
    /\ Len(view.previousState.previous) = 3
    /\ view.previousState.previous[2].chordId = view.state.previous[3].chordId
    /\ view.previousState.previous[3].chordId = view.state.previous[3].chordId
    /\ view.previousState.previous[1].chordId # view.state.previous[3].chordId
    /\ EntriesOf("previous")[3].animateFromPosition = SlotPos("prev-1")

\* C10. Next-slot nodes never receive directed motion: in every render,
\* with or without a snapshot, every node of next is emitted, in its slot,
\* without origin and without scale.
C10_NextNodesPlain ==
    view.state # Null =>
        /\ Len(EntriesOf("next")) = Len(view.state.next)
        /\ \A k \in 1..Len(view.state.next) :
               LET e == EntriesOf("next")[k]
               IN /\ e.node = view.state.next[k]
                  /\ e.slot = NextSlot(k - 1)
                  /\ Plain(e)

\* Two suggestions that the snapshot listed in the opposite order.
C10_Witness ==
    /\ Diffed
    /\ Len(view.state.next) = 2
    /\ Len(view.previousState.next) = 2
    /\ view.state.next[1].chordId = view.previousState.next[2].chordId
    /\ view.state.next[2].chordId = view.previousState.next[1].chordId
    /\ view.state.next[1].chordId # view.state.next[2].chordId
    /\ \A k \in 1..2 : Plain(EntriesOf("next")[k])

\* C11. Null snapshot gives no directed motion: a render of a state with an
\* absent snapshot gives no origin and no scale to any node, the current one,
\* every history node and every suggestion, and each starts at its own slot.
C11_NullSnapshotNoMotion ==
    (view.state # Null /\ view.previousState = Null) =>
        /\ Len(view.allNodes) = Len(view.state.previous) + 1 + Len(view.state.next)
        /\ \A k \in 1..Len(view.allNodes) : Plain(view.allNodes[k])

\* No snapshot, and a state in which every diff of the resolver would find a
\* match: the chord repeats in the history and is listed as a suggestion.
C11_Witness ==
    /\ view.state # Null
    /\ view.previousState = Null
    /\ Len(view.state.previous) = 3
    /\ view.state.previous[1].chordId = view.state.previous[3].chordId
    /\ view.state.previous[2].chordId = view.state.current.chordId
    /\ Len(view.state.next) = 3
    /\ view.state.next[2].chordId = view.state.current.chordId
    /\ Len(view.allNodes) = 7

\* C12. End-to-end scenario: once the chord events C, F, Am, G, C have been
\* merged, from the absent state, and rendered, current is C and previous is
\* [G, Am, F, C]; and when C was none of the suggestions of the state whose
\* current was G, the state the 5th event was merged onto, the render gives
\* the current node no promotion origin.
C12_ScenarioCFAmGC ==
    (Len(eventLog) = Len(Scenario) /\ pendingUpdates = 0) =>
        /\ chordGraphState.current.chordId = "C"
        /\ ChordIds(chordGraphState.previous) = <<"G", "Am", "F", "C">>
        /\ view.state = chordGraphState
        /\ ~Some(mergePrev.next, "C")
               => CurrentNode.animateFromPosition = Undefined

\* The ids and colours of the two nodes drawn.
Colored == colorQuery.colors # <<>>

\* A chord id with a root: a letter A-G in front.
HasRoot(chordId) == Len(chordId) > 0 /\ chordId[1] \in RootLetters

\* Semitones above C of the root of a chord id: the letter, raised by one
\* sharp or lowered by one flat.
PitchClass(chordId) ==
    LET letter == CASE chordId[1] = "C" -> 0 [] chordId[1] = "D" -> 2
                    [] chordId[1] = "E" -> 4 [] chordId[1] = "F" -> 5
                    [] chordId[1] = "G" -> 7 [] chordId[1] = "A" -> 9
                    [] chordId[1] = "B" -> 11
        shift  == IF Len(chordId) < 2 THEN 0
                  ELSE IF chordId[2] = "#" THEN 1
                  ELSE IF chordId[2] = "b" THEN -1
                  ELSE 0
    IN (letter + shift + 12) % 12

\* C13. Enharmonic equivalence of colour identity: two chord ids whose roots
\* are enharmonically equal get the identical colour set, whatever their
\* suffixes.
C13_EnharmonicSameColor ==
    (/\ Colored
     /\ HasRoot(colorQuery.chordIds[1])
     /\ HasRoot(colorQuery.chordIds[2])
     /\ PitchClass(colorQuery.chordIds[1]) = PitchClass(colorQuery.chordIds[2]))
        => colorQuery.colors[1] = colorQuery.colors[2]

\* C14. Unparseable chord ids get the default identity: the empty id and every
\* id that does not start with a letter A-G get DEFAULT_COLORS.
C14_UnparseableDefault ==
    \A k \in 1..Len(colorQuery.colors) :
        ~HasRoot(colorQuery.chordIds[k]) => colorQuery.colors[k] = DEFAULT_COLORS

\* C15. Live-notes throttle keeps the most recent sample: when the throttle
\* timer has fired and no live_notes message has arrived since, on an open
\* socket, livePianoNotes holds the notes of the last message received, and
\* nothing is left pending.
C15_ThrottleKeepsLatest ==
    lastHandler = "throttleTimer" =>
        /\ livePianoNotes = Notes(lastMsg.notes)
        /\ liveNotesThrottleRef = IdleThrottle

\* Three different samples arrived within one timer period: the first was
\* shown at once, the second skipped, the third shown when the timer fired.
C15_Witness ==
    /\ lastHandler = "throttleTimer"
    /\ Len(liveBurst) = 3
    /\ Cardinality({liveBurst[k] : k \in 1..3}) = 3
    /\ livePianoNotes = Notes(liveBurst[3])
    /\ wsReadyState = "OPEN"

\* A chord message with a name was handled last, with demo mode off: its
\* event was merged.
Merged ==
    /\ lastMsg # NoMsg
    /\ lastMsg.type = "chord"
    /\ ~Falsy(lastMsg.chord.name)
    /\ ~demoModeRef

\* C16. Current and next are taken fresh from the event: after a chord event
\* with name n and suggestion list S is merged, whatever the prior state,
\* current.chordId is n and the chordIds of next are the first min(3, |S|)
\* names of S in their order; an empty S gives an empty next.
C16_CurrentNextFresh ==
    Merged =>
        LET S == lastMsg.suggestions
        IN /\ chordGraphState.current.chordId = lastMsg.chord.name
           /\ Len(chordGraphState.next) = Min(3, Len(S))
           /\ \A k \in 1..Len(chordGraphState.next) :
                  chordGraphState.next[k].chordId = S[k].name

\* A re-triggered chord with four suggestions, merged onto a state that
\* listed other suggestions: the first three names replace the old ones.
C16_Witness ==
    /\ Merged
    /\ mergePrev # Null
    /\ mergePrev.current.chordId = lastMsg.chord.name
    /\ Len(lastMsg.suggestions) = 4
    /\ Cardinality({lastMsg.suggestions[k].name : k \in 1..3}) = 3
    /\ Len(mergePrev.next) = 3
    /\ ChordIds(mergePrev.next) # ChordIds(chordGraphState.next)
    /\ Len(chordGraphState.next) = 3

\* The largest tension of a suggestion list, or the floor 0.01 (1 hundredth)
\* when that is larger.
WholeListMax(S) ==
    CHOOSE m \in {S[k].tension : k \in 1..Len(S)} \cup {1} :
        /\ m >= 1
        /\ \A k \in 1..Len(S) : m >= S[k].tension

\* C18. Probability range: every next node made from a chord event has
\* probability 1 - tension / max(all suggestion tensions, 0.01), the maximum
\* taken over the whole suggestion list, and it lies within [0, 1].
C18_ProbabilityRange ==
    Merged =>
        LET S == lastMsg.suggestions
            m == WholeListMax(S)
        IN \A k \in 1..Len(chordGraphState.next) :
               LET p == chordGraphState.next[k].probability
               IN /\ RatEq(p, Rat(m - S[k].tension, m))
                  /\ RatLeq(Rat(0, 1), p)
                  /\ RatLeq(p, Rat(1, 1))
                  /\ p[2] > 0

\* The fourth suggestion, which is not kept, has the largest tension: the
\* kept nodes get probabilities 1, strictly between 0 and 1, and not 0.
C18_Witness ==
    /\ Merged
    /\ Len(lastMsg.suggestions) = 4
    /\ \A k \in 1..3 : lastMsg.suggestions[k].tension < lastMsg.suggestions[4].tension
    /\ lastMsg.suggestions[1].tension = 0
    /\ lastMsg.suggestions[2].tension > 0
    /\ RatEq(chordGraphState.next[1].probability, Rat(1, 1))
    /\ RatEq(chordGraphState.next[2].probability, Rat(2, 3))

\* The ids of all nodes of a state, in one sequence.
NodeIds(state) ==
    [k \in 1..Len(state.previous) |-> state.previous[k].id]
    \o <<state.current.id>>
    \o [k \in 1..Len(state.next) |-> state.next[k].id]

\* C17. Node ids are unique per appearance: the ids of the nodes of a merged
\* state differ from one another, and the current node made by an event has
\* an id that no earlier event gave to its current node, also when chord
\* names repeat.
C17_IdsUnique ==
    chordGraphState # Null =>
        /\ \A j, k \in 1..Len(NodeIds(chordGraphState)) :
               j # k => NodeIds(chordGraphState)[j] # NodeIds(chordGraphState)[k]
        /\ \A j, k \in 1..Len(eventLog) :
               j < k => CurrentId(eventLog[j].at) # CurrentId(eventLog[k].at)

\* The chord names of the logged events, oldest first.
LogNamesOf(log) == [k \in 1..Len(log) |-> log[k].name]

\* A sequence of names with every run of equal neighbours collapsed to one.
RECURSIVE Collapsed(_)
Collapsed(names) ==
    IF Len(names) <= 1 THEN names
    ELSE LET front == Collapsed(SubSeq(names, 1, Len(names) - 1))
         IN IF names[Len(names)] = front[Len(front)]
            THEN front
            ELSE Append(front, names[Len(names)])

Reversed(s) == [k \in 1..Len(s) |-> s[Len(s) + 1 - k]]

\* The chords that were current before the present one, newest first.
EarlierCurrents ==
    LET currents == Collapsed(LogNamesOf(eventLog))
    IN Reversed(SubSeq(currents, 1, Len(currents) - 1))

\* C19. History is the true most-recent-first log: in every state reached
\* from the absent state by chord events, the chordIds of previous are the
\* first MAX_HISTORY entries, newest first, of the chords that were current
\* before the present one (the event sequence with consecutive repeats
\* collapsed, the present current left out).
C19_HistoryIsLog ==
    IF eventLog = <<>>
    THEN chordGraphState = Null
    ELSE /\ chordGraphState.current.chordId = eventLog[Len(eventLog)].name
         /\ ChordIds(chordGraphState.previous) = Slice0(EarlierCurrents, MAX_HISTORY)

\* Seven events over three chords, each naming another chord than the one
\* before: six chords were current earlier, the history holds the newest
\* five and the first current has left it.
C19_Witness ==
    /\ Len(eventLog) = 7
    /\ Len(EarlierCurrents) = MAX_HISTORY + 1
    /\ Len(chordGraphState.previous) = MAX_HISTORY
    /\ Cardinality({chordGraphState.previous[k].chordId : k \in 1..MAX_HISTORY}) = 3

\* C20. The snapshot is the immediately previous state: when ChordGraph has
\* been rendered with the state that the last chord event produced, the
\* previousState it received is the state that event was merged onto, also
\* when two chord events were merged before the one render.
C20_SnapshotIsMergePrev ==
    (/\ lastHandler = "onmessage"
     /\ Merged
     /\ pendingUpdates = 0
     /\ view.state = chordGraphState)
        => view.previousState = mergePrev

\* The state that hydration wrote: its current node is the node of the seed.
IsSeeded(state) == state # Null /\ state.current.id = "seed-c"

\* This step is the render that first shows the seeded state.
SeedFirstShown == IsSeeded(view'.state) /\ ~IsSeeded(view.state)

\* C21. A history seed is shown without directed motion: the render that
\* first shows the state hydrated from the sessionStorage seed passes a null
\* snapshot to the resolver, and no node of the seeded state gets an animation
\* origin or scale.
C21_SeedNoMotion ==
    [][SeedFirstShown =>
          /\ view'.previousState = Null
          /\ \A k \in 1..Len(view'.allNodes) :
                 /\ view'.allNodes[k].animateFromPosition = Undefined
                 /\ view'.allNodes[k].animateFromScale = Undefined]_vars

\* A seed whose first history entry names the seed's current chord and whose
\* history repeats chord names was rendered: five history nodes, none moved.
C21_Witness ==
    /\ IsSeeded(view.state)
    /\ view.previousState = Null
    /\ Len(view.state.previous) >= MAX_HISTORY
    /\ view.state.previous[1].chordId = view.state.current.chordId
    /\ Len(view.state.next) = 2
    /\ Len(view.allNodes) = MAX_HISTORY + 1 + 2
    /\ lastHandler = "hydrate"

\* The slot of the table a history node of the last render was sent from by a
\* Shift (not a demotion), "none" if it was not shifted.
ShiftOriginSlot(k) ==
    LET state == view.state
        prior == view.previousState
        w     == IF prior = Null THEN -1
                 ELSE FindIndex(prior.previous, state.previous[k].chordId)
    IN IF (k = 1 /\ DemotedFromCenter(state, prior)) \/ w < 0 \/ w = k - 1
       THEN "none"
       ELSE PrevSlot(w)

\* C22. History and slot table agree in every reachable state: under seed
\* hydration, Demo clicks and chord events previous holds at most MAX_HISTORY
\* entries, and every history node, every end point of a history edge and
\* every Shift origin of the last render is one of the defined slots
\* prev-0..prev-4.
C22_HistoryFitsSlotTable ==
    /\ chordGraphState # Null => Len(chordGraphState.previous) <= MAX_HISTORY
    /\ view.state # Null =>
          /\ \A k \in 1..Len(view.allNodes) :
                 view.allNodes[k].slot \in DOMAIN SLOT_POSITIONS
          /\ \A j \in 1..Len(PrevEdges(view.state)) :
                 /\ PrevEdges(view.state)[j].fromSlot \in DOMAIN SLOT_POSITIONS
                 /\ PrevEdges(view.state)[j].toSlot \in DOMAIN SLOT_POSITIONS
          /\ \A k \in 1..Min(Len(view.state.previous), MAX_HISTORY) :
                 ShiftOriginSlot(k) \in DOMAIN SLOT_POSITIONS \cup {"none"}

\* This step left a message that is no chord message as the one handled last.
NonChordHandled == lastHandler' = "onmessage" /\ ~IsChordMsg(lastMsg')

\* C23. Only chord messages reach the graph state: a step that handles a
\* live_notes message, a message of another type or unparseable data leaves
\* chordGraphState and notesMap as they were, whatever the state and the
\* throttle.
C23_OnlyChordReachesGraph ==
    [][NonChordHandled => UNCHANGED <<chordGraphState, notesMap>>]_vars

\* A burst of live_notes samples arrived behind two merged chord events
\* while the throttle timer ran: the history still has its one entry.
C23_Witness ==
    /\ lastHandler = "onmessage"
    /\ Len(liveBurst) = 3
    /\ lastMsg = LiveNotesMsg(liveBurst[3])
    /\ liveNotesThrottleRef.timer # Null
    /\ Len(eventLog) = 2
    /\ chordGraphState # Null
    /\ Len(chordGraphState.previous) = 1
    /\ Cardinality(notesMap) = 3

\* This step left a chord message as the one handled last, in demo mode.
ChordHandledInDemo ==
    /\ demoModeRef
    /\ lastHandler' = "onmessage"
    /\ IsChordMsg(lastMsg')

\* C24. Demo mode shields the graph from live chords: a step that handles a
\* chord message while demoModeRef is true leaves chordGraphState and notesMap
\* as they were; demoModeRef turns true only in a Demo click and turns false
\* only in ws.onopen or in the hydration of a history seed.
C24_DemoShieldsGraph ==
    [][/\ ChordHandledInDemo => UNCHANGED <<chordGraphState, notesMap>>
       /\ (~demoModeRef /\ demoModeRef') => lastHandler' = "cycleDemo"
       /\ (demoModeRef /\ ~demoModeRef') => lastHandler' \in {"onopen", "hydrate"}]_vars

\* On an open socket in demo mode a chord message named a chord other than
\* the one shown: the demo state and its notes map are still in place.
C24_Witness ==
    /\ demoModeRef
    /\ wsReadyState = "OPEN"
    /\ lastHandler = "onmessage"
    /\ IsChordMsg(lastMsg)
    /\ demoIndex = 2
    /\ chordGraphState = DEMO_STATES[3].state
    /\ notesMap = DEMO_STATES[3].notesMap
    /\ lastMsg.chord.name = "G"
    /\ lastMsg.chord.name # chordGraphState.current.chordId
    /\ eventLog # <<>>

\* This step is a Demo click.
DemoClick == lastHandler' = "cycleDemo" /\ pendingUpdates' = pendingUpdates + 1

\* The chord after c in the cycle C, F, Am, G; C for a chord outside it.
CycleSuccessor(c) ==
    CASE c = "C"  -> "F"
      [] c = "F"  -> "Am"
      [] c = "Am" -> "G"
      [] OTHER    -> "C"

\* C25. Demo sequencing: a Demo click below index 5 moves demoIndex on by one
\* and shows DEMO_STATES[demoIndex]; a click at index 5 leaves the index at 5
\* and replaces the state by one whose previous is the outgoing current
\* followed by the old previous, cut to 5 entries, and whose current is the
\* successor of the outgoing current in the cycle C, F, Am, G (C when the
\* outgoing current is not in the cycle). The index never passes 5.
C25_DemoSequencing ==
    [][DemoClick =>
          /\ demoIndex \in 0..5
          /\ demoIndex < 5 =>
                 /\ demoIndex' = demoIndex + 1
                 /\ chordGraphState' = DEMO_STATES[demoIndex' + 1].state
          /\ demoIndex = 5 =>
                 /\ demoIndex' = 5
                 /\ chordGraphState # Null
                 /\ ChordIds(chordGraphState'.previous) =
                        Slice0(<<chordGraphState.current.chordId>>
                                   \o ChordIds(chordGraphState.previous), 5)
                 /\ chordGraphState'.current.chordId =
                        CycleSuccessor(chordGraphState.current.chordId)]_vars

\* A click at index 5 on a live state whose current chord Dm is not in the
\* cycle and whose history was full: Dm is at prev-0 and C is shown.
C25_Witness ==
    /\ lastHandler = "cycleDemo"
    /\ demoIndex = 5
    /\ demoModeRef
    /\ chordGraphState.current.chordId = "C"
    /\ Len(chordGraphState.previous) = 5
    /\ chordGraphState.previous[1].chordId = "Dm"
    /\ chordGraphState.previous[2].chordId = "F"
    /\ chordGraphState.previous[5].chordId = "Am"

\* C26. No adjacent repeats in the chord trail: in every state reached from
\* the absent state by chord events and Demo clicks, with no history seed,
\* current.chordId differs from previous[0].chordId and previous[i].chordId
\* differs from previous[i+1].chordId for every valid i.
C26_NoAdjacentRepeats ==
    chordGraphState # Null =>
        LET previous == chordGraphState.previous
        IN /\ Len(previous) > 0 => chordGraphState.current.chordId # previous[1].chordId
           /\ \A i \in 1..(Len(previous) - 1) : previous[i].chordId # previous[i + 1].chordId

\* After five Demo clicks the socket opened, Dm was played twice in a row and
\* Demo was clicked again: the trail is C, Dm, F, C, G, Am.
C26_Witness ==
    /\ lastHandler = "cycleDemo"
    /\ demoIndex = 5
    /\ Len(eventLog) = 2
    /\ eventLog[1].name = "Dm"
    /\ eventLog[2].name = "Dm"
    /\ chordGraphState.current.chordId = "C"
    /\ ChordIds(chordGraphState.previous) = <<"Dm", "F", "C", "G", "Am">>

\* The last render showed the state of the last chord event, resolved against
\* the state before that event.
ResolvedAgainstPrior ==
    /\ Diffed
    /\ Ran(mergePrev)
    /\ view.state = chordGraphState
    /\ view.previousState = mergePrev

\* C27. History nodes animate from the slot they really occupied: after a
\* chord change resolved against the immediately prior state, previous[0]
\* has the center position as origin and every previous[i], i >= 1, has the
\* position of slot prev-(i-1), repeated chord names in the history included.
C27_ShiftFromRealSlot ==
    (/\ ResolvedAgainstPrior
     /\ view.state.current.chordId # view.previousState.current.chordId)
        => \A k \in 1..Len(EntriesOf("previous")) :
               EntriesOf("previous")[k].animateFromPosition =
                   IF k = 1 THEN centerPos ELSE SlotPos(PrevSlot(k - 2))

\* C28. A re-triggered chord moves nothing: when a chord event repeats the
\* current chordId and the state is resolved against the immediately prior
\* state, no node of the new state (current, previous, next) has an animation
\* origin or scale, whatever the history, repeated chord names included.
C28_RetriggerMovesNothing ==
    (/\ ResolvedAgainstPrior
     /\ view.state.current.chordId = view.previousState.current.chordId)
        => \A k \in 1..Len(view.allNodes) :
               /\ view.allNodes[k].animateFromPosition = Undefined
               /\ view.allNodes[k].animateFromScale = Undefined

\* C29. No live-notes delivery after disconnect: after ws.onclose
\* livePianoNotes is null, and it turns from null to a value only in a step
\* that handles a live_notes message on an open socket; a timer armed or a
\* sample pending before the close never sets it.
C29_NoLiveNotesAfterClose ==
    [][/\ lastHandler' = "onclose" => livePianoNotes' = Null
       /\ (livePianoNotes = Null /\ livePianoNotes' # Null) =>
              /\ wsReadyState = "OPEN"
              /\ lastHandler' = "onmessage"
              /\ liveBurst' # <<>>
              /\ lastMsg' = LiveNotesMsg(liveBurst'[Len(liveBurst')])
              /\ livePianoNotes' = Notes(lastMsg'.notes)]_vars

\* The socket closed while the throttle timer ran with a pending sample other
\* than the one shown; the page was rendered since and shows no live notes.
C29_Witness ==
    /\ lastHandler = "onclose"
    /\ closedThrottle # NotRun
    /\ closedThrottle.timer # Null
    /\ closedThrottle.pending # Null
    /\ Len(liveBurst) >= 2
    /\ closedThrottle.pending = Notes(liveBurst[Len(liveBurst)])
    /\ closedThrottle.pending # Notes(liveBurst[1])
    /\ livePianoNotes = Null
    /\ liveNotesThrottleRef = IdleThrottle
    /\ pendingUpdates = 0

\* C30. Held keyboard notes track the physical keys: keyboardHeldNotes holds
\* a MIDI note exactly when the key mapped to it is down (key events outside
\* text inputs, auto-repeat ignored), under every interleaving of key events
\* and socket messages; no chord message removes the note of a held key.
C30_HeldNotesTrackKeys ==
    keyboardHeldNotes = {KEY_TO_MIDI[k] : k \in keysDown \cap DOMAIN KEY_TO_MIDI}

====
